---- MODULE Spec2Model ----
(***************************************************************************)
(* HyperProc: a chainable asynchronous pipeline over an explicit state     *)
(* object (class HyperProc), its bubbling subclass (HyperSubProc) and its  *)
(* normalized error type (HyperProcError).                                 *)
(*                                                                         *)
(* JavaScript values are records [t, v]; objects live in a heap and are    *)
(* referred to by their index, so that "the same object" and "an equal     *)
(* object" are different things.  Error objects carry a unique eid for the *)
(* same reason.  User supplied functions are drawn from small menus of     *)
(* deterministic behaviours, fixed when the record is queued.              *)
(***************************************************************************)
EXTENDS Integers, Sequences, FiniteSets, TLC

VARIABLES engines, heap, runs, nextErr, ncalls, errors, json

vars == <<engines, heap, runs, nextErr, ncalls, errors, json>>

(***************************************************************************)
(* Bounds of the model.                                                    *)
(***************************************************************************)
\* builder calls (applyTo, transform, augment, noop, log, chain, onError)
\* the user makes on the engines all together
MaxCalls == 3
\* HyperProcError objects the user makes with HyperProcError.init
MaxErrors == 2
\* nesting depth of run calls (a Chain record calls the nested run)
MaxDepth == 2

(***************************************************************************)
(* JavaScript values.                                                      *)
(***************************************************************************)
Undefined == [t |-> "undefined", v |-> 0]
Null == [t |-> "null", v |-> 0]
Absent == [t |-> "absent", v |-> 0]
True == [t |-> "boolean", v |-> 1]
NaN == [t |-> "number", v |-> -1]
Num(n) == [t |-> "number", v |-> n]
Ref(r) == [t |-> "object", v |-> r]

\* property names: "a" is the id given to transform/augment, "b" is written
\* by the applyTo menu function, "r" by the recovering handler
Ids == {"a"}
Keys == {"a", "b", "r", "__proto__"}
NoId == "undefined"

NoFields == [k \in Keys |-> Absent]
EmptyObject == [proto |-> "Object", isArray |-> FALSE, fields |-> NoFields]
NullProtoObject == [proto |-> "null", isArray |-> FALSE, fields |-> NoFields]
ArrayObject == [proto |-> "Array", isArray |-> TRUE, fields |-> NoFields]
ClassInstance == [proto |-> "Class", isArray |-> FALSE, fields |-> NoFields]
\* { a: 1 }
ObjectWithA == [EmptyObject EXCEPT !.fields["a"] = Num(1)]

\* the objects the caller holds before any run: an array and a class instance
InitialHeap == <<ArrayObject, ClassInstance>>
ArrayValue == Ref(1)
InstanceValue == Ref(2)

TypeOf(value) == IF value.t \in {"null", "object"} THEN "object" ELSE value.t

\* Object.prototype.hasOwnProperty.call(state, id)
hasOwnProperty(h, state, id) == h[state.v].fields[id] # Absent

\* state[id]
GetField(h, state, id) ==
    IF h[state.v].fields[id] = Absent THEN Undefined ELSE h[state.v].fields[id]

\* state.__proto__ = value through the setter of Object.prototype: the
\* prototype becomes value when value is an object or null, and nothing
\* happens otherwise; no own property is made
SetPrototypeOf(h, state, value) ==
    IF value = Null THEN [h EXCEPT ![state.v].proto = "null"]
    ELSE IF value.t = "object" THEN [h EXCEPT ![state.v].proto = "Other"]
    ELSE h

\* state[id] = value (in place).  An object that has no own property
\* "__proto__" and inherits from Object.prototype has the setter called
SetField(h, state, id, value) ==
    IF id = "__proto__" /\ h[state.v].fields[id] = Absent /\ h[state.v].proto # "null"
    THEN SetPrototypeOf(h, state, value)
    ELSE [h EXCEPT ![state.v].fields[id] = value]

\* { ...state, id: value } : a new plain object
Spread(h, state, id, value) ==
    Append(h, [proto |-> "Object", isArray |-> FALSE,
               fields |-> [h[state.v].fields EXCEPT ![id] = value]])

\* isState without the prototype check
isState_TypeofOnly(h, value) == value # Null /\ TypeOf(value) = "object"

\* HyperProc.isState(value)
isState(h, value) ==
    IF value # Null /\ TypeOf(value) = "object" /\ ~h[value.v].isArray
    THEN h[value.v].proto = "Object" \/ h[value.v].proto = "null"
    ELSE FALSE

(***************************************************************************)
(* Errors.  A thrown value is a record; eid tells error objects apart.     *)
(* cause and state are sequences of length 0 (not attached) or 1.          *)
(***************************************************************************)
\* String(op ?? "UNDEFINED")
OpString(op) == IF op = "undefined" THEN "UNDEFINED" ELSE "Symbol(" \o op \o ")"

\* the truthiness of a thrown value: Error objects are truthy, 0 is not
Truthy(err) == err.cls # "falsy"

\* new Error(message) / new TypeError(message)
NativeError(eid, cls, message) ==
    [eid |-> eid, cls |-> cls, msg |-> message, op |-> "", id |-> NoId,
     cause |-> <<>>, state |-> <<>>]

\* throw 0: a thrown primitive, with String(0) for its message
Zero == [eid |-> 0, cls |-> "falsy", msg |-> "0", op |-> "", id |-> NoId,
         cause |-> <<>>, state |-> <<>>]

\* new HyperProcError(message, { op, id, state, cause });
\* state and cause are sequences: <<>> stands for undefined
HyperProcError(eid, message, op, id, state, cause) ==
    [eid |-> eid, cls |-> "HyperProcError", msg |-> message, op |-> OpString(op),
     id |-> id,
     cause |-> IF cause # <<>> /\ Truthy(cause[1]) THEN cause ELSE <<>>,
     state |-> state]

\* HyperProcError.from(err, { op, id, state })
from(eid, err, op, id, state) ==
    HyperProcError(eid, err.msg, op, id, <<state>>, <<err>>)

\* err instanceof HyperProcError
IsHyperProcError(err) == err.cls = "HyperProcError"

\* a thrown string, "oops": truthy, with no name and no message property
Oops == [eid |-> 0, cls |-> "string", msg |-> "oops", op |-> "", id |-> NoId,
         cause |-> <<>>, state |-> <<>>]

\* value.name and value.message: undefined on a primitive
NameOf(value) == IF value.cls \in {"falsy", "string"} THEN "undefined" ELSE value.cls
MessageOf(value) == IF value.cls \in {"falsy", "string"} THEN "undefined" ELSE value.msg

\* every own property of the error copied, state and the whole cause too
toJSON_OwnProperties(err) ==
    [name |-> NameOf(err), message |-> MessageOf(err), op |-> err.op, id |-> err.id,
     cause |-> err.cause, state |-> err.state]

\* toJSON(), lines 39-47; cause is <<>> for undefined
toJSON(err) ==
    [name |-> NameOf(err), message |-> MessageOf(err), op |-> err.op, id |-> err.id,
     cause |-> IF err.cause # <<>> /\ Truthy(err.cause[1])
               THEN <<[name |-> NameOf(err.cause[1]),
                       message |-> MessageOf(err.cause[1])]>>
               ELSE <<>>]

\* the options of the constructor, each supplied or omitted ("undefined",
\* <<>>): a tag, an id, a state, and for cause a TypeError, the number 0,
\* a string, or a HyperProcError that has a state and a cause itself
Opts ==
    [op : {"undefined", "APPLY_TO"},
     id : {NoId, "a"},
     state : {<<>>, <<ArrayValue>>},
     cause : {<<>>,
              <<NativeError(0, "TypeError", "bad")>>,
              <<Zero>>,
              <<Oops>>,
              <<HyperProcError(0, "inner", "AUGMENT", "a", <<InstanceValue>>,
                               <<NativeError(0, "Error", "boom")>>)>>}]

\* HyperProcError.init(message, opts), lines 56-58, called by the user;
\* errors keeps the object with the options it was made from
init(message, opts) ==
    /\ Len(errors) < MaxErrors
    /\ errors' = Append(errors,
                        [opts |-> opts,
                         error |-> HyperProcError(nextErr, message, opts.op, opts.id,
                                                  opts.state, opts.cause)])
    /\ nextErr' = nextErr + 1
    /\ UNCHANGED <<engines, heap, runs, ncalls, json>>

\* errors[k].error.toJSON() called by the user; json keeps what it returned
CallToJSON(k) ==
    /\ k \in DOMAIN errors
    /\ \A j \in DOMAIN json : json[j].of # k
    /\ json' = Append(json, [of |-> k, value |-> toJSON(errors[k].error)])
    /\ UNCHANGED <<engines, heap, runs, nextErr, ncalls, errors>>

(***************************************************************************)
(* Engines.  A record of the queue is [id, fn, op]; fn names the behaviour *)
(* of the user's function, or the chained engine for a Chain record.       *)
(***************************************************************************)
Engines == {"p", "c"}
Classes == {"HyperProc", "HyperSubProc"}

APPLY_TO == "APPLY_TO"
TRANSFORM == "TRANSFORM"
AUGMENT == "AUGMENT"
CHAIN == "CHAIN"
NOOP == "NOOP"

\* applyTo functions:  s => ({ ...s, b: 1 }),  () => 123,
\*                     () => { throw new Error("boom") }
ApplyFns == {"spread", "bad", "boom"}
\* transform functions:  v => v + 1
TransformFns == {"inc"}
\* augment functions:  () => 1
AugmentFns == {"one"}
\* noop functions:  () => { throw new Error("boom") }
\* (log queues the function that returns undefined)
NoopFns == {"boom"}
\* handlers given to onError:  e => { throw e },  (e, s) => ({ ...s, r: true }),
\*   () => undefined,  () => 123,  () => { throw new Error("handler") }
HandlerFns == {"rethrow", "patch", "undef", "bad", "fail"}

\* the functions of a second family of programs:
\*   applyTo(() => { throw 0 })
FaultyApplyFns == {"zero", "boom"}
FaultyHandlerFns == {"rethrow", "undef"}
\* the tag of a record pushed by hand: Symbol("BOGUS")
BOGUS == "BOGUS"

\* the functions and ids of a third family of programs:
\*   augment(id, () => 1),  augment(id, () => undefined),
\*   augment(id, () => ({})),  with id "a" or "__proto__"
ProtoAugmentFns == {"one", "undef", "object"}
ProtoIds == {"a", "__proto__"}

\* constructor(env = {}): the default handler logs and returns state;
\* the subclass replaces it by (err) => { throw err }
constructor(cls, env) ==
    [cls |-> cls, env |-> env, ops |-> <<>>,
     onError |-> IF cls = "HyperSubProc" THEN "rethrow" ELSE "swallow"]

\* a run call whose promise has settled
Settled(run) == Len(run.stack) = 1 /\ run.stack[1].pc \in {"resolved", "rejected"}

\* The user builds the engine it runs (Root) and the engines chained from
\* it, and then runs it.
Root == "p"

Chained(e) ==
    \E k \in DOMAIN engines[Root].ops :
        engines[Root].ops[k].op = CHAIN /\ engines[Root].ops[k].fn = e

Building(e) ==
    /\ e \in DOMAIN engines
    /\ e = Root \/ Chained(e)
    /\ ncalls < MaxCalls
    /\ runs = <<>>

\* new HyperProc() / new HyperSubProc(): a second engine
construct(e, cls) ==
    /\ e \notin DOMAIN engines
    /\ engines' = (e :> constructor(cls, e)) @@ engines
    /\ UNCHANGED <<heap, runs, nextErr, ncalls, errors, json>>

\* this._ops.push(record)
Pushed(e, record) == [engines EXCEPT ![e].ops = Append(@, record)]

applyTo(e, fn) ==
    /\ Building(e)
    /\ engines' = Pushed(e, [id |-> NoId, fn |-> fn, op |-> APPLY_TO])
    /\ ncalls' = ncalls + 1
    /\ UNCHANGED <<heap, runs, nextErr, errors, json>>

transform(e, id, fn) ==
    /\ Building(e)
    /\ engines' = Pushed(e, [id |-> id, fn |-> fn, op |-> TRANSFORM])
    /\ ncalls' = ncalls + 1
    /\ UNCHANGED <<heap, runs, nextErr, errors, json>>

augment(e, id, fn) ==
    /\ Building(e)
    /\ engines' = Pushed(e, [id |-> id, fn |-> fn, op |-> AUGMENT])
    /\ ncalls' = ncalls + 1
    /\ UNCHANGED <<heap, runs, nextErr, errors, json>>

noop(e, fn) ==
    /\ Building(e)
    /\ engines' = Pushed(e, [id |-> NoId, fn |-> fn, op |-> NOOP])
    /\ ncalls' = ncalls + 1
    /\ UNCHANGED <<heap, runs, nextErr, errors, json>>

\* log(arg): the queued function prints and returns undefined
log(e) ==
    /\ Building(e)
    /\ engines' = Pushed(e, [id |-> NoId, fn |-> "quiet", op |-> NOOP])
    /\ ncalls' = ncalls + 1
    /\ UNCHANGED <<heap, runs, nextErr, errors, json>>

\* chain(hyperProc), lines 85-87: anything but an engine is refused
chain(e, hyperProc) ==
    /\ Building(e)
    /\ hyperProc \in DOMAIN engines
    /\ engines' = Pushed(e, [id |-> NoId, fn |-> hyperProc, op |-> CHAIN])
    /\ ncalls' = ncalls + 1
    /\ UNCHANGED <<heap, runs, nextErr, errors, json>>

onError(e, fn) ==
    /\ Building(e)
    /\ engines' = [engines EXCEPT ![e].onError = fn]
    /\ ncalls' = ncalls + 1
    /\ UNCHANGED <<heap, runs, nextErr, errors, json>>

\* hp._ops.push({ id, op: Symbol("BOGUS"), fn: async () => {} }):
\* a record put on the queue without a builder method
push(e, id) ==
    /\ Building(e)
    /\ engines' = Pushed(e, [id |-> id, fn |-> "quiet", op |-> BOGUS])
    /\ ncalls' = ncalls + 1
    /\ UNCHANGED <<heap, runs, nextErr, errors, json>>

(***************************************************************************)
(* The user's functions.  Each returns [threw, value, heap]: whether it    *)
(* throws new Error("boom"), the value it returns, and the heap after it.  *)
(***************************************************************************)
\* v + 1
Inc(value) == IF value.t = "number" /\ value.v >= 0 THEN Num(value.v + 1) ELSE NaN

UserFn(fn, h, state, value) ==
    CASE fn = "spread" ->
            [threw |-> FALSE, value |-> Ref(Len(h) + 1),
             heap |-> Spread(h, state, "b", Num(1))]
      [] fn = "bad" -> [threw |-> FALSE, value |-> Num(123), heap |-> h]
      [] fn = "inc" -> [threw |-> FALSE, value |-> Inc(value), heap |-> h]
      [] fn = "one" -> [threw |-> FALSE, value |-> Num(1), heap |-> h]
      [] fn = "quiet" -> [threw |-> FALSE, value |-> Undefined, heap |-> h]
      [] fn = "undef" -> [threw |-> FALSE, value |-> Undefined, heap |-> h]
      [] fn = "object" ->
            [threw |-> FALSE, value |-> Ref(Len(h) + 1), heap |-> Append(h, EmptyObject)]
      [] OTHER -> [threw |-> TRUE, value |-> Undefined, heap |-> h]

\* what a function that throws throws: new Error("boom"), or 0
Thrown(fn, eid) == IF fn = "zero" THEN Zero ELSE NativeError(eid, "Error", "boom")

\* the default handler throwing what it is given
HandlerFn_DefaultThrows(fn, h, state) ==
    [threw |-> fn \in {"swallow", "rethrow", "fail"}, same |-> fn # "fail",
     value |-> IF fn = "patch" THEN Ref(Len(h) + 1)
               ELSE IF fn = "bad" THEN Num(123) ELSE Undefined,
     heap |-> IF fn = "patch" THEN Spread(h, state, "r", True) ELSE h]

\* The handlers: [threw, same, value, heap]; same tells a handler that
\* throws the error it was given from one that throws a new Error.
HandlerFn(fn, h, state) ==
    CASE fn = "swallow" ->
            [threw |-> FALSE, same |-> FALSE, value |-> state, heap |-> h]
      [] fn = "patch" ->
            [threw |-> FALSE, same |-> FALSE, value |-> Ref(Len(h) + 1),
             heap |-> Spread(h, state, "r", True)]
      [] fn = "undef" ->
            [threw |-> FALSE, same |-> FALSE, value |-> Undefined, heap |-> h]
      [] fn = "bad" ->
            [threw |-> FALSE, same |-> FALSE, value |-> Num(123), heap |-> h]
      [] fn = "rethrow" ->
            [threw |-> TRUE, same |-> TRUE, value |-> Undefined, heap |-> h]
      [] OTHER ->
            [threw |-> TRUE, same |-> FALSE, value |-> Undefined, heap |-> h]

(***************************************************************************)
(* Runs.  A top-level run call is [input, stack, events]; the stack holds  *)
(* one frame per run call in progress (a Chain record calls the nested     *)
(* engine's run), the last frame being the one that executes.  events is   *)
(* the history of the call, kept for stating properties.                   *)
(*   frame.pc:  "loop"     at the head of the for-of loop                  *)
(*              "await"    awaiting the function or nested run of ops[i]   *)
(*              "handler"  awaiting this._onError(...)                     *)
(*              "resolved" / "rejected"  the promise of run has settled    *)
(***************************************************************************)
NoSpec == [id |-> NoId, op |-> "undefined"]

Frame(fid, e, state) ==
    [fid |-> fid, eng |-> e, state |-> state, i |-> 0, pc |-> "loop",
     spec |-> NoSpec, herr |-> <<>>, err |-> <<>>]

Snapshot(h, value) == IF value.t = "object" THEN h[value.v].fields ELSE NoFields

\* the env of the engine run was first called on, whatever the call
Env_Outermost(f) == engines[Root].env

\* this._env and this._onError in the run call of frame f
Env(f) == engines[f.eng].env
OnError(f) == engines[f.eng].onError

\* what is seen of frame f at a step: its position, its state, and the
\* env and handler it passes or calls
Event(f, ev, h, err) ==
    [fid |-> f.fid, eng |-> f.eng, i |-> f.i, ev |-> ev, state |-> f.state,
     fields |-> Snapshot(h, f.state), err |-> err,
     env |-> Env(f), handler |-> OnError(f)]

Active(r) == r \in DOMAIN runs /\ ~Settled(runs[r])
Top(r) == runs[r].stack[Len(runs[r].stack)]
NewFid(r) == Cardinality({k \in DOMAIN runs[r].events : runs[r].events[k].ev = "enter"}) + 1

\* the run with stack stk, its last frame replaced by f, and events added
Update(r, stk, f, evs) ==
    [runs EXCEPT ![r].stack = [stk EXCEPT ![Len(stk)] = f],
                 ![r].events = @ \o evs]

\* run(state), lines 99-101: the entry check of a run call
Entered(h, fid, e, state) ==
    IF ~isState(h, state)
    THEN [Frame(fid, e, state) EXCEPT
            !.pc = "rejected",
            !.err = <<NativeError(nextErr, "TypeError", "run expects an OBJECT")>>]
    ELSE Frame(fid, e, state)

\* the caller's arguments to run: null, a number, an array, a class
\* instance, a new {} or Object.create(null), or an object it already has
RunInputs == {Null, Num(123), ArrayValue, InstanceValue}
               \cup {Ref(o) : o \in 3..Len(heap)}

\* the run calls whose promise is pending
Pending == {q \in DOMAIN runs : ~Settled(runs[q])}

\* the run call named r, made by the user with heap h; during keeps the
\* calls that were pending when it was made
Called(r, e, input, h) ==
    (r :> [input |-> input, stack |-> <<Entered(h, 1, e, input)>>,
           events |-> <<Event(Entered(h, 1, e, input), "enter", h,
                              Entered(h, 1, e, input).err)>>,
           during |-> Pending]) @@ runs

\* run(state) called by the user on a value it holds
Run(r, e, input) ==
    /\ r \notin DOMAIN runs
    /\ \A q \in DOMAIN runs : Settled(runs[q])
    /\ runs' = Called(r, e, input, heap)
    /\ nextErr' = IF isState(heap, input) THEN nextErr ELSE nextErr + 1
    /\ UNCHANGED <<engines, heap, ncalls, errors, json>>

\* run(o) called with the object o that the call q was given
Rerun(r, e, q) ==
    /\ q \in DOMAIN runs
    /\ Run(r, e, runs[q].input)

\* run({}) and run(Object.create(null))
RunFresh(r, e, object) ==
    /\ r \notin DOMAIN runs
    /\ \A q \in DOMAIN runs : Settled(runs[q])
    /\ heap' = Append(heap, object)
    /\ runs' = Called(r, e, Ref(Len(heap')), heap')
    /\ nextErr' = IF isState(heap', Ref(Len(heap'))) THEN nextErr ELSE nextErr + 1
    /\ UNCHANGED <<engines, ncalls, errors, json>>

\* run(object) called while other run calls may be pending:
\*   const first = hp.run({}); const second = hp.run({ a: 1 })
\* order lists the names of the calls in the order the user makes them
RunMeanwhile(order, k, e, object) ==
    /\ order[k] \notin DOMAIN runs
    /\ \A j \in 1..(k - 1) : order[j] \in DOMAIN runs
    /\ LET r == order[k]
       IN runs' = Called(r, e, Ref(Len(heap) + 1), Append(heap, object))
    /\ heap' = Append(heap, object)
    /\ nextErr' = IF isState(heap', Ref(Len(heap'))) THEN nextErr ELSE nextErr + 1
    /\ UNCHANGED <<engines, ncalls, errors, json>>

(***************************************************************************)
(* The interpretation loop of run, lines 106-142, one action per case of   *)
(* the switch and one per await.                                           *)
(***************************************************************************)
\* the record the for-of loop takes next, when there is one
HasNext(f) == f.pc = "loop" /\ f.i < Len(engines[f.eng].ops)
NextRecord(f) == engines[f.eng].ops[f.i + 1]
Current(f) == engines[f.eng].ops[f.i]

\* spec = {id, op}
Take(f) == [f EXCEPT !.i = @ + 1,
                     !.spec = [id |-> NextRecord(f).id, op |-> NextRecord(f).op]]

\* the error handed on as it was thrown
Normalize_Raw(eid, err, f) == err

\* every error wrapped, a HyperProcError too
Normalize_AlwaysWrap(eid, err, f) == from(eid, err, f.spec.op, f.spec.id, f.state)

\* spec kept in one place for all the calls: the error gets the tag and
\* id of the record another pending call is at
Normalize_SharedSpec(eid, err, f) ==
    LET others == {q \in DOMAIN runs : ~Settled(runs[q]) /\ Top(q).fid = 1
                                         /\ Top(q).state # f.state /\ Top(q).i > 0}
        spec == IF others = {} THEN f.spec ELSE Top(CHOOSE q \in others : TRUE).spec
    IN IF IsHyperProcError(err) THEN err
       ELSE from(eid, err, spec.op, spec.id, f.state)

\* lines 145-147: err instanceof HyperProcError ? err : HyperProcError.from(...)
Normalize(eid, err, f) ==
    IF IsHyperProcError(err) THEN err
    ELSE from(eid, err, f.spec.op, f.spec.id, f.state)

\* catch (err), lines 143-150: err was thrown in frame f, the last of stk,
\* after `created` error objects were made in this step and with heap h;
\* the error is normalized and this._onError is called with it
Caught(r, stk, f, err, created, h) ==
    LET hyperProcError == Normalize(nextErr + created, err, f)
        g == [f EXCEPT !.pc = "handler", !.herr = <<hyperProcError>>]
    IN /\ runs' = Update(r, stk, g, <<Event(f, "raise", h, <<err>>),
                                      Event(g, "handler", h, <<hyperProcError>>)>>)
       /\ nextErr' = nextErr + created + (IF IsHyperProcError(err) THEN 0 ELSE 1)
       /\ heap' = h
       /\ UNCHANGED <<engines, ncalls, errors, json>>

\* the awaited function returned: the loop goes on with frame g and heap h
Completed(r, stk, g, h) ==
    /\ runs' = Update(r, stk, g, <<Event(g, "end", h, <<>>)>>)
    /\ heap' = h
    /\ UNCHANGED <<engines, ncalls, nextErr, errors, json>>

\* the function called and not awaited
Invoke_NoAwait(r, f) ==
    /\ runs' = Update(r, runs[r].stack, Take(f), <<Event(Take(f), "start", heap, <<>>)>>)
    /\ UNCHANGED <<engines, heap, ncalls, nextErr, errors, json>>

\* a function of the queue is called and awaited
Invoke(r, f) ==
    LET g == [Take(f) EXCEPT !.pc = "await"]
    IN /\ runs' = Update(r, runs[r].stack, g, <<Event(g, "start", heap, <<>>)>>)
       /\ UNCHANGED <<engines, heap, ncalls, nextErr, errors, json>>

Awaiting(r, op) ==
    /\ Active(r)
    /\ Top(r).pc = "await"
    /\ Current(Top(r)).op = op

\* case APPLY_TO, line 111: fn(state, this._env) is called
StepApplyTo(r) ==
    /\ Active(r)
    /\ HasNext(Top(r))
    /\ NextRecord(Top(r)).op = APPLY_TO
    /\ Invoke(r, Top(r))

\* lines 111-115: the await settles
SettleApplyTo(r) ==
    /\ Awaiting(r, APPLY_TO)
    /\ LET f == Top(r)
           res == UserFn(Current(f).fn, heap, f.state, Undefined)
       IN IF res.threw
          THEN Caught(r, runs[r].stack, f, Thrown(Current(f).fn, nextErr), 1, heap)
          ELSE IF ~isState(res.heap, res.value)
          THEN Caught(r, runs[r].stack, f,
                      NativeError(nextErr, "TypeError", "applyTo must return an OBJECT"),
                      1, res.heap)
          ELSE Completed(r, runs[r].stack,
                         [f EXCEPT !.state = res.value, !.pc = "loop"], res.heap)

\* transform without the check of line 118
StepTransform_Unchecked(r) ==
    /\ Active(r)
    /\ HasNext(Top(r))
    /\ NextRecord(Top(r)).op = TRANSFORM
    /\ Invoke(r, Top(r))

\* case TRANSFORM, lines 118-121
StepTransform(r) ==
    /\ Active(r)
    /\ HasNext(Top(r))
    /\ NextRecord(Top(r)).op = TRANSFORM
    /\ LET f == Take(Top(r))
       IN IF ~hasOwnProperty(heap, f.state, f.spec.id)
          THEN Caught(r, runs[r].stack, f,
                      HyperProcError(nextErr, "transform missing property",
                                     f.spec.op, f.spec.id, <<>>, <<>>),
                      1, heap)
          ELSE Invoke(r, Top(r))

\* line 121: state[id] = await fn(state[id], state, this._env)
SettleTransform(r) ==
    /\ Awaiting(r, TRANSFORM)
    /\ LET f == Top(r)
           res == UserFn(Current(f).fn, heap, f.state,
                         GetField(heap, f.state, f.spec.id))
       IN IF res.threw
          THEN Caught(r, runs[r].stack, f, Thrown(Current(f).fn, nextErr), 1, heap)
          ELSE Completed(r, runs[r].stack, [f EXCEPT !.pc = "loop"],
                         SetField(res.heap, f.state, f.spec.id, res.value))

\* case AUGMENT, lines 124-127
StepAugment(r) ==
    /\ Active(r)
    /\ HasNext(Top(r))
    /\ NextRecord(Top(r)).op = AUGMENT
    /\ LET f == Take(Top(r))
       IN IF hasOwnProperty(heap, f.state, f.spec.id)
          THEN Caught(r, runs[r].stack, f,
                      HyperProcError(nextErr, "augment property already exists",
                                     f.spec.op, f.spec.id, <<>>, <<>>),
                      1, heap)
          ELSE Invoke(r, Top(r))

\* line 127: state[id] = await fn(state, this._env)
SettleAugment(r) ==
    /\ Awaiting(r, AUGMENT)
    /\ LET f == Top(r)
           res == UserFn(Current(f).fn, heap, f.state, Undefined)
       IN IF res.threw
          THEN Caught(r, runs[r].stack, f, Thrown(Current(f).fn, nextErr), 1, heap)
          ELSE Completed(r, runs[r].stack, [f EXCEPT !.pc = "loop"],
                         SetField(res.heap, f.state, f.spec.id, res.value))

\* case NOOP, line 137
StepNoop(r) ==
    /\ Active(r)
    /\ HasNext(Top(r))
    /\ NextRecord(Top(r)).op = NOOP
    /\ Invoke(r, Top(r))

SettleNoop(r) ==
    /\ Awaiting(r, NOOP)
    /\ LET f == Top(r)
           res == UserFn(Current(f).fn, heap, f.state, Undefined)
       IN IF res.threw
          THEN Caught(r, runs[r].stack, f, Thrown(Current(f).fn, nextErr), 1, heap)
          ELSE Completed(r, runs[r].stack, [f EXCEPT !.pc = "loop"], res.heap)

\* case CHAIN, line 130: fn.run(state) is called; the nested call gets a
\* frame of its own and this frame awaits its promise
StepChain(r) ==
    /\ Active(r)
    /\ HasNext(Top(r))
    /\ NextRecord(Top(r)).op = CHAIN
    /\ Len(runs[r].stack) < MaxDepth
    /\ LET f == [Take(Top(r)) EXCEPT !.pc = "await"]
           child == Entered(heap, NewFid(r), NextRecord(Top(r)).fn, f.state)
       IN /\ runs' = [runs EXCEPT
                        ![r].stack = Append([@ EXCEPT ![Len(@)] = f], child),
                        ![r].events = @ \o <<Event(f, "start", heap, <<>>),
                                             Event(child, "enter", heap, child.err)>>]
          /\ nextErr' = IF child.pc = "rejected" THEN nextErr + 1 ELSE nextErr
    /\ UNCHANGED <<engines, heap, ncalls, errors, json>>

\* the result of the nested run dropped: no state = nextState
SettleChain_InPlaceOnly(r) ==
    /\ Active(r)
    /\ Len(runs[r].stack) > 1
    /\ Top(r).pc \in {"resolved", "rejected"}
    /\ LET child == Top(r)
           stk == SubSeq(runs[r].stack, 1, Len(runs[r].stack) - 1)
           f == stk[Len(stk)]
       IN IF child.pc = "rejected"
          THEN Caught(r, stk, f, child.err[1], 0, heap)
          ELSE Completed(r, stk, [f EXCEPT !.pc = "loop"], heap)

\* lines 130-134: the promise of the nested run settles
SettleChain(r) ==
    /\ Active(r)
    /\ Len(runs[r].stack) > 1
    /\ Top(r).pc \in {"resolved", "rejected"}
    /\ LET child == Top(r)
           stk == SubSeq(runs[r].stack, 1, Len(runs[r].stack) - 1)
           f == stk[Len(stk)]
       IN IF child.pc = "rejected"
          THEN Caught(r, stk, f, child.err[1], 0, heap)
          ELSE IF ~isState(heap, child.state)
          THEN Caught(r, stk, f,
                      NativeError(nextErr, "TypeError", "chain must return an OBJECT"),
                      1, heap)
          ELSE Completed(r, stk, [f EXCEPT !.state = child.state, !.pc = "loop"], heap)

\* the error of the default case thrown out of run, past the handler
StepUnknown_Uncaught(r) ==
    /\ Active(r)
    /\ HasNext(Top(r))
    /\ NextRecord(Top(r)).op \notin {APPLY_TO, TRANSFORM, AUGMENT, CHAIN, NOOP}
    /\ LET f == Take(Top(r))
           err == HyperProcError(nextErr, "Unknown Operation: " \o OpString(f.spec.op),
                                 f.spec.op, f.spec.id, <<f.state>>, <<>>)
           g == [f EXCEPT !.pc = "rejected", !.err = <<err>>]
       IN /\ runs' = Update(r, runs[r].stack, g,
                            <<Event(f, "raise", heap, <<err>>),
                              Event(g, "reject", heap, <<err>>)>>)
          /\ nextErr' = nextErr + 1
    /\ UNCHANGED <<engines, heap, ncalls, errors, json>>

\* default, lines 139-141: the tag is none of the five
StepUnknown(r) ==
    /\ Active(r)
    /\ HasNext(Top(r))
    /\ NextRecord(Top(r)).op \notin {APPLY_TO, TRANSFORM, AUGMENT, CHAIN, NOOP}
    /\ LET f == Take(Top(r))
       IN Caught(r, runs[r].stack, f,
                 HyperProcError(nextErr, "Unknown Operation: " \o OpString(f.spec.op),
                                f.spec.op, f.spec.id, <<f.state>>, <<>>),
                 1, heap)

\* the queue emptied when the loop is over
Return_ClearsQueue(r) ==
    /\ Active(r)
    /\ Top(r).pc = "loop"
    /\ Top(r).i = Len(engines[Top(r).eng].ops)
    /\ LET g == [Top(r) EXCEPT !.pc = "resolved"]
       IN runs' = Update(r, runs[r].stack, g, <<Event(g, "resolve", heap, <<>>)>>)
    /\ engines' = [engines EXCEPT ![Top(r).eng].ops = <<>>]
    /\ UNCHANGED <<heap, ncalls, nextErr, errors, json>>

\* line 159: the loop is over, return state
Return(r) ==
    /\ Active(r)
    /\ Top(r).pc = "loop"
    /\ Top(r).i = Len(engines[Top(r).eng].ops)
    /\ LET g == [Top(r) EXCEPT !.pc = "resolved"]
       IN runs' = Update(r, runs[r].stack, g, <<Event(g, "resolve", heap, <<>>)>>)
    /\ UNCHANGED <<engines, heap, ncalls, nextErr, errors, json>>

\* the loop taken up again after the recovery
Recovered_Resume(f, res, eid) ==
    IF res.threw \/ ~isState(res.heap, IF res.value = Undefined THEN f.state ELSE res.value)
    THEN [f EXCEPT !.pc = "rejected", !.err = <<NativeError(eid, "Error", "handler")>>]
    ELSE [f EXCEPT !.pc = "loop",
                   !.state = IF res.value = Undefined THEN f.state ELSE res.value]

\* a result that is no state handed to the handler again
Recovered_Retry(f, res, eid) ==
    IF res.threw
    THEN [f EXCEPT !.pc = "rejected",
                   !.err = IF res.same THEN f.herr
                           ELSE <<NativeError(eid, "Error", "handler")>>]
    ELSE IF ~isState(res.heap, IF res.value = Undefined THEN f.state ELSE res.value)
    THEN [f EXCEPT !.pc = "handler"]
    ELSE [f EXCEPT !.pc = "resolved",
                   !.state = IF res.value = Undefined THEN f.state ELSE res.value]

\* the result of the handler dropped
Recovered_KeepState(f, res, eid) ==
    IF res.threw
    THEN [f EXCEPT !.pc = "rejected",
                   !.err = IF res.same THEN f.herr
                           ELSE <<NativeError(eid, "Error", "handler")>>]
    ELSE [f EXCEPT !.pc = "resolved"]

\* the result of the handler taken without the check of line 152
Recovered_Lenient(f, res, eid) ==
    IF res.threw
    THEN [f EXCEPT !.pc = "rejected",
                   !.err = IF res.same THEN f.herr
                           ELSE <<NativeError(eid, "Error", "handler")>>]
    ELSE [f EXCEPT !.pc = "resolved",
                   !.state = IF res.value = Undefined THEN f.state ELSE res.value]

\* what the handler throws wrapped into a HyperProcError
Recovered_Wrap(f, res, eid) ==
    IF res.threw
    THEN [f EXCEPT !.pc = "rejected",
                   !.err = <<from(eid + 1,
                                  IF res.same THEN f.herr[1]
                                  ELSE NativeError(eid, "Error", "handler"),
                                  f.spec.op, f.spec.id, f.state)>>]
    ELSE IF ~isState(res.heap, IF res.value = Undefined THEN f.state ELSE res.value)
    THEN [f EXCEPT !.pc = "rejected",
                   !.err = <<NativeError(eid, "TypeError",
                                         "onError must return UNDEFINED or an OBJECT")>>]
    ELSE [f EXCEPT !.pc = "resolved",
                   !.state = IF res.value = Undefined THEN f.state ELSE res.value]

\* lines 150-157: the handler has settled with res; the frame after it.
\* What the handler throws, and the TypeError for a result that is no
\* state, leave run through catch (rethrow) { throw rethrow }
Recovered(f, res, eid) ==
    LET state == IF res.value = Undefined THEN f.state ELSE res.value
    IN IF res.threw
       THEN [f EXCEPT !.pc = "rejected",
                      !.err = IF res.same THEN f.herr
                              ELSE <<NativeError(eid, "Error", "handler")>>]
       ELSE IF ~isState(res.heap, state)
       THEN [f EXCEPT !.pc = "rejected",
                      !.err = <<NativeError(eid, "TypeError",
                                            "onError must return UNDEFINED or an OBJECT")>>]
       ELSE [f EXCEPT !.pc = "resolved", !.state = state]

\* the event a frame leaves when an await of it settles
Outcome(g) ==
    CASE g.pc = "rejected" -> "reject"
      [] g.pc = "resolved" -> "resolve"
      [] g.pc = "handler" -> "handler"
      [] OTHER -> "end"

\* lines 150-159: the await of this._onError settles
SettleOnError(r) ==
    /\ Active(r)
    /\ Top(r).pc = "handler"
    /\ LET f == Top(r)
           res == HandlerFn(OnError(f), heap, f.state)
           g == Recovered(f, res, nextErr)
       IN /\ runs' = Update(r, runs[r].stack, g,
                            <<Event(g, Outcome(g), res.heap,
                                    IF g.pc = "handler" THEN g.herr ELSE g.err)>>)
          /\ heap' = res.heap
          /\ nextErr' = IF g.err # <<>> /\ g.err # f.herr THEN nextErr + 1 ELSE nextErr
    /\ UNCHANGED <<engines, ncalls, errors, json>>

(***************************************************************************)
(* A Chain record that calls run again for a call that is pending: the     *)
(* same engine on the same object with the same fields (chain accepts the  *)
(* engine itself and engines that chain back, lines 84-92).  The functions *)
(* being deterministic, the nested call does what the pending one did, and *)
(* reaches the same Chain record again.                                    *)
(***************************************************************************)
\* the entries (events "enter") of the pending calls that the Chain record
\* next in frame f would repeat
Repeated(r, f) ==
    {m \in DOMAIN runs[r].events :
        /\ runs[r].events[m].ev = "enter"
        /\ runs[r].events[m].eng = NextRecord(f).fn
        /\ runs[r].events[m].state = f.state
        /\ runs[r].events[m].fields = Snapshot(heap, f.state)
        /\ \E j \in DOMAIN runs[r].stack :
                runs[r].stack[j].fid = runs[r].events[m].fid}

\* the latest of them
LastRepeated(r, f) == CHOOSE m \in Repeated(r, f) : \A n \in Repeated(r, f) : n <= m

\* nothing was awaited since event m: every step since then was the call
\* of a nested run (line 130, up to its own first await)
Synchronous(r, m) ==
    \A k \in DOMAIN runs[r].events :
        k > m =>
            /\ runs[r].events[k].ev \in {"start", "enter"}
            /\ runs[r].events[k].ev = "start" =>
                    engines[runs[r].events[k].eng].ops[runs[r].events[k].i].op = CHAIN

\* the Chain record next in the top frame repeats a pending call
Recursing(r) ==
    /\ Active(r)
    /\ HasNext(Top(r))
    /\ NextRecord(Top(r)).op = CHAIN
    /\ Repeated(r, Top(r)) # {}

\* it does so after an await: each nested call starts on an empty stack
Looping(r) == Recursing(r) /\ ~Synchronous(r, LastRepeated(r, Top(r)))

\* line 130, the nested call being none that goes round after an await
Descend(r) == ~Looping(r) /\ StepChain(r)

\* the first error id not used by the events evs
FreshErr(evs) ==
    LET used == {0} \cup {evs[k].err[1].eid : k \in {j \in DOMAIN evs : evs[j].err # <<>>}}
    IN 1 + CHOOSE n \in used : \A o \in used : o <= n

\* line 130 with an await somewhere between the pending call and this one:
\* the nested call repeats the pending one, which the model is taken back
\* to instead of adding a frame
Reenter(r) ==
    /\ Looping(r)
    /\ LET m == LastRepeated(r, Top(r))
           first == runs[r].events[m]
           j == CHOOSE j \in DOMAIN runs[r].stack : runs[r].stack[j].fid = first.fid
       IN /\ runs' = [runs EXCEPT
                        ![r].stack = Append(SubSeq(@, 1, j - 1),
                                            Frame(first.fid, first.eng, first.state)),
                        ![r].events = SubSeq(@, 1, m)]
          /\ nextErr' = FreshErr(SubSeq(runs[r].events, 1, m))
    /\ UNCHANGED <<engines, heap, ncalls, errors, json>>

\* line 130 with no await between the pending call and this one: run calls
\* run on the same stack until a call fails with a RangeError, which the
\* catch of line 143 gets; the frames in between are left out where the
\* stack of the model is MaxDepth deep
Overflow(r) ==
    /\ Recursing(r)
    /\ Synchronous(r, LastRepeated(r, Top(r)))
    /\ Len(runs[r].stack) >= MaxDepth
    /\ Caught(r, runs[r].stack, Take(Top(r)),
              NativeError(nextErr, "RangeError", "Maximum call stack size exceeded"),
              1, heap)

(***************************************************************************)
(* run executed alone: the whole of a run call, from its entry to the      *)
(* settling of its promise, with no step of another call in between.       *)
(* The result is [frame, heap]: the last frame of the call and the heap.   *)
(***************************************************************************)
\* catch (err), lines 143-158, with the handler run to its end
CatchAlone(f, h, err) ==
    LET g == [f EXCEPT !.herr = <<Normalize(0, err, f)>>]
        res == HandlerFn(OnError(g), h, g.state)
    IN [frame |-> Recovered(g, res, 0), heap |-> res.heap]

RECURSIVE RunAlone(_, _, _, _)
RECURSIVE LoopAlone(_, _, _)

\* the for-of loop from the position of frame f on, lines 107-142 and 159
LoopAlone(f, h, depth) ==
    IF ~HasNext(f) THEN [frame |-> [f EXCEPT !.pc = "resolved"], heap |-> h]
    ELSE
    LET g == Take(f)
        record == NextRecord(f)
        res == UserFn(record.fn, h, g.state,
                      IF record.op = TRANSFORM THEN GetField(h, g.state, record.id)
                      ELSE Undefined)
        child == RunAlone(record.fn, h, g.state, depth + 1)
    IN CASE record.op = APPLY_TO ->
              IF res.threw THEN CatchAlone(g, h, Thrown(record.fn, 0))
              ELSE IF ~isState(res.heap, res.value)
              THEN CatchAlone(g, res.heap,
                              NativeError(0, "TypeError", "applyTo must return an OBJECT"))
              ELSE LoopAlone([g EXCEPT !.state = res.value], res.heap, depth)
         [] record.op = TRANSFORM ->
              IF ~hasOwnProperty(h, g.state, record.id)
              THEN CatchAlone(g, h, HyperProcError(0, "transform missing property",
                                                   record.op, record.id, <<>>, <<>>))
              ELSE IF res.threw THEN CatchAlone(g, h, Thrown(record.fn, 0))
              ELSE LoopAlone(g, SetField(res.heap, g.state, record.id, res.value), depth)
         [] record.op = AUGMENT ->
              IF hasOwnProperty(h, g.state, record.id)
              THEN CatchAlone(g, h, HyperProcError(0, "augment property already exists",
                                                   record.op, record.id, <<>>, <<>>))
              ELSE IF res.threw THEN CatchAlone(g, h, Thrown(record.fn, 0))
              ELSE LoopAlone(g, SetField(res.heap, g.state, record.id, res.value), depth)
         [] record.op = NOOP ->
              IF res.threw THEN CatchAlone(g, h, Thrown(record.fn, 0))
              ELSE LoopAlone(g, res.heap, depth)
         [] record.op = CHAIN ->
              IF depth >= MaxDepth THEN [frame |-> [g EXCEPT !.pc = "await"], heap |-> h]
              ELSE IF child.frame.pc = "await"
              THEN [frame |-> [g EXCEPT !.pc = "await"], heap |-> child.heap]
              ELSE IF child.frame.pc = "rejected"
              THEN CatchAlone(g, child.heap, child.frame.err[1])
              ELSE IF ~isState(child.heap, child.frame.state)
              THEN CatchAlone(g, child.heap,
                              NativeError(0, "TypeError", "chain must return an OBJECT"))
              ELSE LoopAlone([g EXCEPT !.state = child.frame.state], child.heap, depth)
         [] OTHER ->
              CatchAlone(g, h, HyperProcError(0, "Unknown Operation: " \o OpString(record.op),
                                              record.op, record.id, <<g.state>>, <<>>))

\* run(state), lines 97-160
RunAlone(e, h, state, depth) ==
    IF Entered(h, depth, e, state).pc = "rejected"
    THEN [frame |-> Entered(h, depth, e, state), heap |-> h]
    ELSE LoopAlone(Entered(h, depth, e, state), h, depth)

(***************************************************************************)
(* The specification.                                                      *)
(***************************************************************************)
Init ==
    /\ \E cls \in Classes : engines = (Root :> constructor(cls, Root))
    /\ heap = InitialHeap
    /\ runs = <<>>
    /\ nextErr = 1
    /\ ncalls = 0
    /\ errors = <<>>
    /\ json = <<>>

\* the run calls the user makes: one, named "main"
RunNames == {"main"}

Next ==
    \/ \E e \in Engines, cls \in Classes : construct(e, cls)
    \/ \E e \in Engines, fn \in ApplyFns : applyTo(e, fn)
    \/ \E e \in Engines, id \in Ids, fn \in TransformFns : transform(e, id, fn)
    \/ \E e \in Engines, id \in Ids, fn \in AugmentFns : augment(e, id, fn)
    \/ \E e \in Engines, fn \in NoopFns : noop(e, fn)
    \/ \E e \in Engines : log(e)
    \/ \E e \in Engines, x \in Engines \cup {"notAnEngine"} : chain(e, x)
    \/ \E e \in Engines, fn \in HandlerFns : onError(e, fn)
    \/ \E r \in RunNames, input \in RunInputs : Run(r, Root, input)
    \/ \E r \in RunNames, object \in {EmptyObject, NullProtoObject} :
          RunFresh(r, Root, object)
    \/ \E r \in RunNames : StepApplyTo(r)
    \/ \E r \in RunNames : SettleApplyTo(r)
    \/ \E r \in RunNames : StepTransform(r)
    \/ \E r \in RunNames : SettleTransform(r)
    \/ \E r \in RunNames : StepAugment(r)
    \/ \E r \in RunNames : SettleAugment(r)
    \/ \E r \in RunNames : StepNoop(r)
    \/ \E r \in RunNames : SettleNoop(r)
    \/ \E r \in RunNames : StepChain(r)
    \/ \E r \in RunNames : SettleChain(r)
    \/ \E r \in RunNames : Return(r)
    \/ \E r \in RunNames : SettleOnError(r)

Spec == Init /\ [][Next]_vars

\* Programs as the README writes them: engines of the two classes with
\* the handler of their class, queues of applyTo, transform, augment and
\* chain, run on {}
NextPipelines ==
    \/ \E e \in Engines, cls \in Classes : construct(e, cls)
    \/ \E e \in Engines, fn \in ApplyFns : applyTo(e, fn)
    \/ \E e \in Engines, id \in Ids, fn \in TransformFns : transform(e, id, fn)
    \/ \E e \in Engines, id \in Ids, fn \in AugmentFns : augment(e, id, fn)
    \/ \E e \in Engines, x \in Engines : chain(e, x)
    \/ \E r \in RunNames, object \in {EmptyObject} : RunFresh(r, Root, object)
    \/ \E r \in RunNames : StepApplyTo(r)
    \/ \E r \in RunNames : SettleApplyTo(r)
    \/ \E r \in RunNames : StepTransform(r)
    \/ \E r \in RunNames : SettleTransform(r)
    \/ \E r \in RunNames : StepAugment(r)
    \/ \E r \in RunNames : SettleAugment(r)
    \/ \E r \in RunNames : StepChain(r)
    \/ \E r \in RunNames : SettleChain(r)
    \/ \E r \in RunNames : Return(r)
    \/ \E r \in RunNames : SettleOnError(r)

SpecPipelines == Init /\ [][NextPipelines]_vars

\* Programs with faults of a second kind: functions that throw 0, and
\* records pushed on the queue by hand
NextFaults ==
    \/ \E e \in Engines, cls \in Classes : construct(e, cls)
    \/ \E e \in Engines, fn \in FaultyApplyFns : applyTo(e, fn)
    \/ \E e \in Engines, id \in Ids, fn \in AugmentFns : augment(e, id, fn)
    \/ \E e \in Engines, id \in Ids : push(e, id)
    \/ \E e \in Engines, x \in Engines : chain(e, x)
    \/ \E e \in Engines, fn \in FaultyHandlerFns : onError(e, fn)
    \/ \E r \in RunNames, object \in {EmptyObject} : RunFresh(r, Root, object)
    \/ \E r \in RunNames : StepApplyTo(r)
    \/ \E r \in RunNames : SettleApplyTo(r)
    \/ \E r \in RunNames : StepAugment(r)
    \/ \E r \in RunNames : SettleAugment(r)
    \/ \E r \in RunNames : StepChain(r)
    \/ \E r \in RunNames : SettleChain(r)
    \/ \E r \in RunNames : StepUnknown(r)
    \/ \E r \in RunNames : Return(r)
    \/ \E r \in RunNames : SettleOnError(r)

SpecFaults == Init /\ [][NextFaults]_vars

\* Programs of augment records, the id "__proto__" among their ids
NextProto ==
    \/ \E e \in Engines, cls \in Classes : construct(e, cls)
    \/ \E e \in Engines, id \in ProtoIds, fn \in ProtoAugmentFns : augment(e, id, fn)
    \/ \E e \in Engines, x \in Engines : chain(e, x)
    \/ \E r \in RunNames, object \in {EmptyObject, NullProtoObject} :
          RunFresh(r, Root, object)
    \/ \E r \in RunNames : StepAugment(r)
    \/ \E r \in RunNames : SettleAugment(r)
    \/ \E r \in RunNames : StepChain(r)
    \/ \E r \in RunNames : SettleChain(r)
    \/ \E r \in RunNames : Return(r)
    \/ \E r \in RunNames : SettleOnError(r)

SpecProto == Init /\ [][NextProto]_vars

\* Programs that call run twice on the engine they built, the second call
\* made after the first settled or while it is pending
TwoRuns == <<"first", "second">>
TwoRunNames == {TwoRuns[k] : k \in DOMAIN TwoRuns}
\* their applyTo functions:  () => { throw new Error("boom") }
TwoRunsApplyFns == {"boom"}

NextTwoRuns ==
    \/ \E e \in Engines, cls \in Classes : construct(e, cls)
    \/ \E e \in Engines, fn \in TwoRunsApplyFns : applyTo(e, fn)
    \/ \E e \in Engines, id \in Ids, fn \in AugmentFns : augment(e, id, fn)
    \/ \E e \in Engines, x \in Engines : chain(e, x)
    \/ \E k \in DOMAIN TwoRuns, object \in {EmptyObject, ObjectWithA} :
          RunMeanwhile(TwoRuns, k, Root, object)
    \/ \E r \in TwoRunNames : StepApplyTo(r)
    \/ \E r \in TwoRunNames : SettleApplyTo(r)
    \/ \E r \in TwoRunNames : StepAugment(r)
    \/ \E r \in TwoRunNames : SettleAugment(r)
    \/ \E r \in TwoRunNames : StepChain(r)
    \/ \E r \in TwoRunNames : SettleChain(r)
    \/ \E r \in TwoRunNames : Return(r)
    \/ \E r \in TwoRunNames : SettleOnError(r)

SpecTwoRuns == Init /\ [][NextTwoRuns]_vars

\* The same engine run again on the object the first run was given:
\*   const o = {}; await hp.run(o); await hp.run(o)
\* with queues of the field-level operations and chain, and no applyTo
NextRerun ==
    \/ \E e \in Engines, cls \in Classes : construct(e, cls)
    \/ \E e \in Engines, id \in Ids, fn \in TransformFns : transform(e, id, fn)
    \/ \E e \in Engines, id \in ProtoIds, fn \in AugmentFns : augment(e, id, fn)
    \/ \E e \in Engines, x \in Engines : chain(e, x)
    \/ \E object \in {EmptyObject} : RunFresh(TwoRuns[1], Root, object)
    \/ \E q \in TwoRunNames : Rerun(TwoRuns[2], Root, q)
    \/ \E r \in TwoRunNames : StepTransform(r)
    \/ \E r \in TwoRunNames : SettleTransform(r)
    \/ \E r \in TwoRunNames : StepAugment(r)
    \/ \E r \in TwoRunNames : SettleAugment(r)
    \/ \E r \in TwoRunNames : StepChain(r)
    \/ \E r \in TwoRunNames : SettleChain(r)
    \/ \E r \in TwoRunNames : Return(r)
    \/ \E r \in TwoRunNames : SettleOnError(r)

SpecRerun == Init /\ [][NextRerun]_vars

\* Engines chained to themselves and to each other, with queues of log,
\* noop and chain.  A step of a pending run call is a continuation the
\* event loop has queued, or the settling of a user function that settles:
\* it is taken eventually (weak fairness).
RunStep(r) ==
    \/ StepNoop(r)
    \/ SettleNoop(r)
    \/ Descend(r)
    \/ SettleChain(r)
    \/ Reenter(r)
    \/ Overflow(r)
    \/ Return(r)
    \/ SettleOnError(r)

NextCycles ==
    \/ \E e \in Engines, cls \in Classes : construct(e, cls)
    \/ \E e \in Engines, fn \in NoopFns : noop(e, fn)
    \/ \E e \in Engines : log(e)
    \/ \E e \in Engines, x \in Engines : chain(e, x)
    \/ \E r \in RunNames, object \in {EmptyObject} : RunFresh(r, Root, object)
    \/ \E r \in RunNames : StepNoop(r)
    \/ \E r \in RunNames : SettleNoop(r)
    \/ \E r \in RunNames : Descend(r)
    \/ \E r \in RunNames : SettleChain(r)
    \/ \E r \in RunNames : Reenter(r)
    \/ \E r \in RunNames : Overflow(r)
    \/ \E r \in RunNames : Return(r)
    \/ \E r \in RunNames : SettleOnError(r)

SpecCycles ==
    /\ Init
    /\ [][NextCycles]_vars
    /\ \A r \in RunNames : WF_vars(RunStep(r))

\* The error class used on its own, as in the test "HyperProcError.toJSON
\* has stable shape"
NextErrors ==
    \/ \E opts \in Opts : init("msg", opts)
    \/ \E k \in 1..MaxErrors : CallToJSON(k)

SpecErrors == Init /\ [][NextErrors]_vars

(***************************************************************************)
(* Reading the history of a run call.                                      *)
(***************************************************************************)
Ev(r) == runs[r].events

\* the events of the same run call (frame) as event k
SameCall(r, k) == {j \in DOMAIN Ev(r) : Ev(r)[j].fid = Ev(r)[k].fid}
Before(r, k) == {j \in SameCall(r, k) : j < k}
After(r, k) == {j \in SameCall(r, k) : j > k}

\* event k is of the given kind
Is(r, k, ev) == Ev(r)[k].ev = ev

\* the last event before k at which the call of k held a completed state:
\* its entry, or the end of its latest completed operation
LastGood(r, k) ==
    CHOOSE g \in Before(r, k) :
        /\ Ev(r)[g].ev \in {"enter", "end"}
        /\ \A j \in Before(r, k) : Ev(r)[j].ev \in {"enter", "end"} => j <= g

\* the handler installed on the engine of event k
HandlerOf(r, k) == engines[Ev(r)[k].eng].onError

\* the record of the queue that event k is about
RecordOf(r, k) == engines[Ev(r)[k].eng].ops[Ev(r)[k].i]

\* the call of event k was refused at its entry (line 100)
RefusedAtEntry(r, k) == Is(r, k, "enter") /\ Ev(r)[k].err # <<>>

PlainTypeError(err) ==
    /\ err.cls = "TypeError"
    /\ err.cause = <<>>
    /\ err.state = <<>>

\* the shape violations raised by the call of event k itself: the errors
\* made at lines 113 and 132, and the one made at line 153
LoopShapeMessages == {"applyTo must return an OBJECT", "chain must return an OBJECT"}

LoopShapeViolation(r, k) ==
    /\ Is(r, k, "raise")
    /\ ~IsHyperProcError(Ev(r)[k].err[1])
    /\ Ev(r)[k].err[1].msg \in LoopShapeMessages

RecoveryShapeViolation(r, k) ==
    /\ Is(r, k, "reject")
    /\ ~IsHyperProcError(Ev(r)[k].err[1])
    /\ Ev(r)[k].err[1].msg = "onError must return UNDEFINED or an OBJECT"

NotPlainObjects == {Null, Undefined, Num(123), ArrayValue, InstanceValue}

C3_InvalidInputRejected ==
    \A r \in DOMAIN runs :
        runs[r].input \in NotPlainObjects =>
            /\ Len(Ev(r)) = 1
            /\ Settled(runs[r])
            /\ runs[r].stack[1].pc = "rejected"
            /\ runs[r].stack[1].err[1].cls = "TypeError"
            /\ runs[r].stack[1].i = 0

\* run was given a class instance by an engine with two queued records
\* and a handler of its own
C3_Witness ==
    \E r \in DOMAIN runs :
        /\ runs[r].input = InstanceValue
        /\ Len(engines[Root].ops) = 2
        /\ engines[Root].onError = "patch"
        /\ runs[r].stack[1].pc = "rejected"

C6_InvalidRecoveryRejects ==
    \A r \in DOMAIN runs : \A k \in DOMAIN Ev(r) :
        (Is(r, k, "handler") /\ HandlerOf(r, k) = "bad") =>
            \A j \in After(r, k) :
                /\ j = k + 1
                /\ Is(r, j, "reject")
                /\ PlainTypeError(Ev(r)[j].err[1])
                /\ Ev(r)[j].err[1].msg = "onError must return UNDEFINED or an OBJECT"

\* the handler returned 123 and the call rejected
C6_Witness ==
    \E r \in DOMAIN runs : \E k \in DOMAIN Ev(r) :
        /\ Is(r, k, "handler")
        /\ HandlerOf(r, k) = "bad"
        /\ \E j \in After(r, k) : Is(r, j, "reject")

(***************************************************************************)
(* C7.  When the handler throws e, run rejects with e itself, not wrapped  *)
(* and not normalized again; the handler is not called again and no other  *)
(* queued operation is executed.                                           *)
(***************************************************************************)
C7_HandlerThrowPropagates ==
    \A r \in DOMAIN runs : \A k \in DOMAIN Ev(r) :
        (Is(r, k, "handler") /\ HandlerOf(r, k) \in {"rethrow", "fail"}) =>
            \A j \in After(r, k) :
                /\ j = k + 1
                /\ Is(r, j, "reject")
                /\ HandlerOf(r, k) = "rethrow" => Ev(r)[j].err = Ev(r)[k].err
                /\ HandlerOf(r, k) = "fail" =>
                        Ev(r)[j].err = <<NativeError(Ev(r)[j].err[1].eid, "Error", "handler")>>

\* the handler threw a new Error after the second record failed, a third
\* record being queued
C7_Witness ==
    \E r \in DOMAIN runs : \E k \in DOMAIN Ev(r) :
        /\ Is(r, k, "handler")
        /\ HandlerOf(r, k) = "fail"
        /\ Len(engines[Ev(r)[k].eng].ops) > Ev(r)[k].i
        /\ \E j \in After(r, k) : Is(r, j, "reject")

(***************************************************************************)
(* C8.  Within a run call the operations execute one at a time in queue    *)
(* order: the operation at position i+1 starts only after the operation at *)
(* position i has completed, and a call goes on (starts, completes or      *)
(* fails a record, calls its handler, settles) only when every run call    *)
(* nested in it, the handler of that call included, has settled.           *)
(***************************************************************************)
\* the call entered at event j has settled before event k
SettledBefore(r, j, k) ==
    \/ RefusedAtEntry(r, j)
    \/ \E m \in After(r, j) : m < k /\ Ev(r)[m].ev \in {"resolve", "reject"}

C8_OneAtATime ==
    \A r \in DOMAIN runs : \A k \in DOMAIN Ev(r) :
        /\ Is(r, k, "start") =>
                /\ Ev(r)[k].i = Ev(r)[LastGood(r, k)].i + 1
                /\ \A j \in Before(r, k) : j <= LastGood(r, k)
        /\ ~Is(r, k, "enter") =>
                \A j \in 1..(k - 1) :
                    (Is(r, j, "enter") /\ Ev(r)[j].fid > Ev(r)[k].fid) =>
                        SettledBefore(r, j, k)

\* the record after a Chain record has started, the nested call having
\* completed a record of its own
C8_Witness ==
    \E r \in DOMAIN runs : \E k, n \in DOMAIN Ev(r) :
        /\ Is(r, k, "start")
        /\ Ev(r)[k].fid = 1
        /\ Ev(r)[k].i = 2
        /\ engines[Root].ops[1].op = CHAIN
        /\ n < k
        /\ Is(r, n, "end")
        /\ Ev(r)[n].fid = 2

(***************************************************************************)
(* C9.  When a bubbling child queued by chain fails, the handler of the    *)
(* parent is given the normalized error of the child itself: the same      *)
(* error object, with the message of the failure and the tag and id of the *)
(* record of the child that failed; when the handler of the parent throws  *)
(* it again, the run of the parent rejects with that HyperProcError.       *)
(***************************************************************************)
Bubbling(e) == engines[e].cls = "HyperSubProc" /\ engines[e].onError = "rethrow"

\* event k is the call of the handler of a parent for a failed Chain
\* record, and event c is the call of the handler of the nested run that
\* the record started
ChildFailure(r, k, c) ==
    /\ Is(r, k, "handler")
    /\ RecordOf(r, k).op = CHAIN
    /\ c < k
    /\ Is(r, c, "handler")
    /\ \E s \in Before(r, k) :
            /\ Is(r, s, "start")
            /\ Ev(r)[s].i = Ev(r)[k].i
            /\ Is(r, s + 1, "enter")
            /\ Ev(r)[c].fid = Ev(r)[s + 1].fid

C9_BubbledErrorUnchanged ==
    \A r \in DOMAIN runs : \A k, c \in DOMAIN Ev(r) :
        (ChildFailure(r, k, c) /\ Bubbling(Ev(r)[c].eng)) =>
            /\ Ev(r)[k].err = Ev(r)[c].err
            /\ IsHyperProcError(Ev(r)[k].err[1])
            /\ Ev(r)[k].err[1].msg = Ev(r)[c - 1].err[1].msg
            /\ RecordOf(r, c).op # CHAIN =>
                    /\ Ev(r)[k].err[1].op = OpString(RecordOf(r, c).op)
                    /\ Ev(r)[k].err[1].id = RecordOf(r, c).id
            /\ HandlerOf(r, k) = "rethrow" =>
                    \A j \in After(r, k) :
                        Is(r, j, "reject") /\ Ev(r)[j].err = Ev(r)[c].err

\* the function of an applyTo record of a bubbling child threw, and the
\* parent, whose handler throws what it is given, rejected
C9_Witness ==
    \E r \in DOMAIN runs : \E k, c \in DOMAIN Ev(r) :
        /\ ChildFailure(r, k, c)
        /\ Bubbling(Ev(r)[c].eng)
        /\ RecordOf(r, c).op = APPLY_TO
        /\ Ev(r)[c].err[1].msg = "boom"
        /\ HandlerOf(r, k) = "rethrow"
        /\ \E j \in After(r, k) : Is(r, j, "reject")

(***************************************************************************)
(* C10.  When a bubbling child queued by chain fails at its k-th record,   *)
(* the state given to the handler of the parent contains every effect of   *)
(* the records 1..k-1 of the child: every field of the state the child     *)
(* held at its failure, with its value.                                    *)
(***************************************************************************)
C10_ChildEffectsKept ==
    \A r \in DOMAIN runs : \A k, c \in DOMAIN Ev(r) :
        (ChildFailure(r, k, c) /\ Bubbling(Ev(r)[c].eng)) =>
            \A id \in Keys :
                Ev(r)[c].fields[id] # Absent =>
                    Ev(r)[k].fields[id] = Ev(r)[c].fields[id]

(***************************************************************************)
(* C11.  When an operation of a chained child with the default handler     *)
(* fails, the run of the child resolves with the state the child held at   *)
(* the failure (its last good state), the Chain record of the parent       *)
(* completes with that state without the handler of the parent being       *)
(* called for it, and the parent goes on with its next record.             *)
(***************************************************************************)
\* the entry of the call of event k, and the start of the Chain record
\* that made the call (for a nested call)
EnterOf(r, k) == CHOOSE j \in SameCall(r, k) : Is(r, j, "enter")
Nested(r, k) == Ev(r)[k].fid > 1
CallerStart(r, k) == EnterOf(r, k) - 1

Reaches(r, k) ==
    /\ Ev(r)[k].ev \in {"start", "raise"}
    /\ \A j \in Before(r, k) : Ev(r)[j].i < Ev(r)[k].i

C12_TransformMissing ==
    \A r \in DOMAIN runs : \A k \in DOMAIN Ev(r) :
        (/\ Reaches(r, k)
         /\ RecordOf(r, k).op = TRANSFORM
         /\ Ev(r)[k].fields[RecordOf(r, k).id] = Absent) =>
            /\ Is(r, k, "raise")
            /\ IsHyperProcError(Ev(r)[k].err[1])
            /\ Ev(r)[k].err[1].op = OpString(TRANSFORM)
            /\ Ev(r)[k].err[1].id = RecordOf(r, k).id
            /\ Ev(r)[k].state = Ev(r)[LastGood(r, k)].state
            /\ Ev(r)[k].fields = Ev(r)[LastGood(r, k)].fields
            /\ \A j \in After(r, k) :
                    /\ ~Is(r, j, "start")
                    /\ Is(r, j, "handler") =>
                            /\ Ev(r)[j].err = Ev(r)[k].err
                            /\ Ev(r)[j].fields = Ev(r)[k].fields

\* a transform record was reached with a state that has another field
\* but not the one it names
C12_Witness ==
    \E r \in DOMAIN runs : \E k \in DOMAIN Ev(r) :
        /\ Reaches(r, k)
        /\ RecordOf(r, k).op = TRANSFORM
        /\ Ev(r)[k].fields[RecordOf(r, k).id] = Absent
        /\ Ev(r)[k].fields # NoFields
        /\ \E j \in After(r, k) : Is(r, j, "handler")

(***************************************************************************)
(* C13.  When an augment(id, f) record has completed, whatever f returned  *)
(* (undefined included), and the next record of the queue is augment(id,   *)
(* g) with the same id, that record fails with a HyperProcError tagged     *)
(* Augment and id, and g is not called; this for every id.                 *)
(***************************************************************************)
\* event k is the completion of an augment record that is followed in its
\* queue by an augment record for the same id
AugmentedTwice(r, k) ==
    /\ Is(r, k, "end")
    /\ RecordOf(r, k).op = AUGMENT
    /\ Ev(r)[k].i < Len(engines[Ev(r)[k].eng].ops)
    /\ engines[Ev(r)[k].eng].ops[Ev(r)[k].i + 1].op = AUGMENT
    /\ engines[Ev(r)[k].eng].ops[Ev(r)[k].i + 1].id = RecordOf(r, k).id

C13_SecondAugmentFails ==
    \A r \in DOMAIN runs : \A k \in DOMAIN Ev(r) :
        AugmentedTwice(r, k) =>
            \A j \in After(r, k) :
                /\ ~Is(r, j, "start")
                /\ Is(r, j, "raise") =>
                        /\ Ev(r)[j].i = Ev(r)[k].i + 1
                        /\ IsHyperProcError(Ev(r)[j].err[1])
                        /\ Ev(r)[j].err[1].msg = "augment property already exists"
                        /\ Ev(r)[j].err[1].op = OpString(AUGMENT)
                        /\ Ev(r)[j].err[1].id = RecordOf(r, k).id
                /\ j = k + 1 => Is(r, j, "raise")

(***************************************************************************)
(* C14.  When a Chain record completes, the state of the parent is the     *)
(* state the nested run resolved with: it has every field the child        *)
(* produced, written in place or into an object that replaced the state,   *)
(* and the next record of the parent is given that state.                  *)
(***************************************************************************)
\* event k is the completion of a Chain record
ChainCompleted(r, k) == Is(r, k, "end") /\ RecordOf(r, k).op = CHAIN

C14_ChainSuccess ==
    \A r \in DOMAIN runs : \A k \in DOMAIN Ev(r) :
        ChainCompleted(r, k) =>
            /\ Is(r, k - 1, "resolve")
            /\ CallerStart(r, k - 1) \in Before(r, k)
            /\ Ev(r)[CallerStart(r, k - 1)].i = Ev(r)[k].i
            /\ Ev(r)[k].state = Ev(r)[k - 1].state
            /\ Ev(r)[k].fields = Ev(r)[k - 1].fields
            /\ \A c \in SameCall(r, k - 1) : \A id \in Keys :
                    Ev(r)[c].fields[id] # Absent => Ev(r)[k].fields[id] # Absent
            /\ \A j \in After(r, k) :
                    j = k + 1 =>
                        /\ Ev(r)[j].state = Ev(r)[k].state
                        /\ Ev(r)[j].fields = Ev(r)[k].fields

\* the child replaced the state by a new object, and the parent started
\* its next record
C14_Witness ==
    \E r \in DOMAIN runs : \E k \in DOMAIN Ev(r) :
        /\ ChainCompleted(r, k)
        /\ Ev(r)[k].state # Ev(r)[CallerStart(r, k - 1)].state
        /\ Ev(r)[k].fields # NoFields
        /\ \E j \in After(r, k) : Is(r, j, "start")

(***************************************************************************)
(* C15.  Every function of the queue and the handler are called with the   *)
(* env of the engine that holds the record: in a nested run call, made by  *)
(* a Chain record, with the env of the chained engine, and a failure in    *)
(* the nested call is handed first to the handler of the chained engine.   *)
(***************************************************************************)
\* the engine whose queue holds the records of the call of event k: the
\* engine run was called on, or the one the Chain record names
Holder(r, k) ==
    IF Nested(r, k)
    THEN engines[Ev(r)[CallerStart(r, k)].eng].ops[Ev(r)[CallerStart(r, k)].i].fn
    ELSE Root

C15_OwnEnvAndHandler ==
    \A r \in DOMAIN runs : \A k \in DOMAIN Ev(r) :
        /\ Ev(r)[k].eng = Holder(r, k)
        /\ Ev(r)[k].env = engines[Holder(r, k)].env
        /\ Ev(r)[k].handler = engines[Holder(r, k)].onError
        /\ Is(r, k, "raise") =>
                /\ k + 1 \in SameCall(r, k)
                /\ Is(r, k + 1, "handler")
                /\ Ev(r)[k + 1].env = engines[Holder(r, k)].env
                /\ Ev(r)[k + 1].handler = engines[Holder(r, k)].onError

\* a function of a chained engine failed, the parent having another env
\* and another handler
C15_Witness ==
    \E r \in DOMAIN runs : \E k \in DOMAIN Ev(r) :
        /\ Nested(r, k)
        /\ Is(r, k, "handler")
        /\ Ev(r)[k].err[1].msg = "boom"
        /\ Holder(r, k) # Ev(r)[CallerStart(r, k)].eng
        /\ Ev(r)[k].env # Ev(r)[CallerStart(r, k)].env
        /\ Ev(r)[k].handler # Ev(r)[CallerStart(r, k)].handler

(***************************************************************************)
(* C16.  Whatever a function of the queue throws that is no HyperProcError *)
(* reaches the handler as a HyperProcError that has the thrown value for   *)
(* its cause and the tag and id of the failing record, for every thrown    *)
(* value: Error objects, values that are no Error, falsy values.           *)
(***************************************************************************)
C16_CauseIsThrownValue ==
    \A r \in DOMAIN runs : \A k \in DOMAIN Ev(r) :
        (Is(r, k, "raise") /\ ~IsHyperProcError(Ev(r)[k].err[1])) =>
            /\ k + 1 \in SameCall(r, k)
            /\ Is(r, k + 1, "handler")
            /\ IsHyperProcError(Ev(r)[k + 1].err[1])
            /\ Ev(r)[k + 1].err[1].msg = Ev(r)[k].err[1].msg
            /\ Ev(r)[k + 1].err[1].op = OpString(RecordOf(r, k).op)
            /\ Ev(r)[k + 1].err[1].id = RecordOf(r, k).id
            /\ Ev(r)[k + 1].err[1].cause = Ev(r)[k].err

(***************************************************************************)
(* C17.  A record whose tag is none of the five fails when the loop        *)
(* reaches it, with a HyperProcError "Unknown Operation" that carries the  *)
(* tag, the id of the record and the current state; the error is handed    *)
(* to the handler like any failure (the default engine resolves, the       *)
(* bubbling one rejects with it), and no later record is executed.         *)
(***************************************************************************)
Tags == {APPLY_TO, TRANSFORM, AUGMENT, CHAIN, NOOP}

C18_StateAlwaysValid ==
    \A r \in DOMAIN runs : \A n \in DOMAIN runs[r].stack :
        runs[r].stack[n].pc # "rejected" =>
            isState(heap, runs[r].stack[n].state)

(***************************************************************************)
(* C19.  Two run calls on the same engine, the second made after the first *)
(* settled, on two distinct states with the same fields, have the same     *)
(* outcome: the same fields in the state they resolve with, or the same    *)
(* rejection.                                                              *)
(***************************************************************************)
\* what is compared of an error: its class, message, tag, id and cause
Sig(err) ==
    [cls |-> err.cls, msg |-> err.msg, op |-> err.op, id |-> err.id,
     cause |-> IF err.cause = <<>> THEN <<>>
               ELSE <<[cls |-> err.cause[1].cls, msg |-> err.cause[1].msg]>>]

\* the outcome of a call that ended with frame f and heap h
Result(f, h) ==
    [pc |-> f.pc, fields |-> Snapshot(h, f.state),
     err |-> IF f.pc = "rejected" THEN <<Sig(f.err[1])>> ELSE <<>>]

\* the states given to the calls q and r are distinct objects with the
\* same prototype and the same fields
StructurallyEqual(q, r) ==
    /\ runs[q].input # runs[r].input
    /\ heap[runs[q].input.v].proto = heap[runs[r].input.v].proto
    /\ Ev(q)[1].fields = Ev(r)[1].fields

\* the calls q and r were made one after the other settled
OneAfterTheOther(q, r) == runs[q].during = {} /\ runs[r].during = {}

C19_SameOutcomeTwice ==
    \A q, r \in DOMAIN runs :
        (/\ Settled(runs[q]) /\ Settled(runs[r])
         /\ OneAfterTheOther(q, r)
         /\ StructurallyEqual(q, r)) =>
            Result(runs[q].stack[1], heap) = Result(runs[r].stack[1], heap)

\* two calls, one after the other, on two objects {}: both wrote a field
\* and then failed
C19_Witness ==
    \E q, r \in DOMAIN runs :
        /\ Settled(runs[q]) /\ Settled(runs[r])
        /\ OneAfterTheOther(q, r)
        /\ StructurallyEqual(q, r)
        /\ Result(runs[r].stack[1], heap).fields # Ev(r)[1].fields
        /\ \E k \in DOMAIN Ev(r) : Is(r, k, "raise")

(***************************************************************************)
(* C20.  No step of run changes the queue, the handler or the env of an    *)
(* engine, and every run call, whatever the steps of other calls on the    *)
(* same engine between its own, ends with the outcome the same call has    *)
(* when it is executed alone.                                              *)
(***************************************************************************)
\* the outcome of the call r executed alone on the state it was given
Alone(r) ==
    LET h == [heap EXCEPT ![runs[r].input.v].fields = Ev(r)[1].fields]
        alone == RunAlone(Ev(r)[1].eng, h, runs[r].input, 1)
    IN Result(alone.frame, alone.heap)

SameAsAlone ==
    \A r \in DOMAIN runs :
        Settled(runs[r]) => Result(runs[r].stack[1], heap) = Alone(r)

EngineUntouched == runs' # runs => engines' = engines

C20_RunsIndependent == []SameAsAlone /\ [][EngineUntouched]_vars

\* a call made while another was pending, the two on different states,
\* both settled after failures
C20_Witness ==
    \E q, r \in DOMAIN runs :
        /\ Settled(runs[q]) /\ Settled(runs[r])
        /\ q \in runs[r].during
        /\ Ev(q)[1].fields # Ev(r)[1].fields
        /\ \E k \in DOMAIN Ev(q) : Is(q, k, "handler") /\ k > 3
        /\ \E k \in DOMAIN Ev(r) : Is(r, k, "handler") /\ k > 3

(***************************************************************************)
(* C21.  Whatever of op, id, state and cause was supplied to the           *)
(* constructor, toJSON() returns a record with exactly the keys name,      *)
(* message, op, id and cause.  name is "HyperProcError"; op is the string  *)
(* of the tag, "UNDEFINED" when none was supplied; id is the id supplied;  *)
(* cause is undefined when the error has no cause (none was supplied, or   *)
(* a falsy one, which the constructor does not keep), and otherwise a      *)
(* record with exactly the keys name and message, those of the cause; the  *)
(* state is not in it.                                                     *)
(***************************************************************************)
C21_ToJSONShape ==
    \A j \in DOMAIN json :
        LET made == errors[json[j].of]
            value == json[j].value
        IN /\ DOMAIN value = {"name", "message", "op", "id", "cause"}
           /\ value.name = "HyperProcError"
           /\ value.message = "msg"
           /\ value.op = IF made.opts.op = "undefined" THEN "UNDEFINED"
                         ELSE "Symbol(" \o made.opts.op \o ")"
           /\ value.id = made.opts.id
           /\ (made.opts.cause = <<>> \/ ~Truthy(made.opts.cause[1])) =>
                    value.cause = <<>>
           /\ (made.opts.cause # <<>> /\ Truthy(made.opts.cause[1])) =>
                    /\ Len(value.cause) = 1
                    /\ DOMAIN value.cause[1] = {"name", "message"}
                    /\ value.cause[1].name = NameOf(made.opts.cause[1])
                    /\ value.cause[1].message = MessageOf(made.opts.cause[1])

\* toJSON was called on an error made with nothing but a message, and on
\* one made with a tag, an id, a state and a cause that has a cause
C21_Witness ==
    \E i, j \in DOMAIN json :
        /\ errors[json[i].of].opts =
                [op |-> "undefined", id |-> NoId, state |-> <<>>, cause |-> <<>>]
        /\ json[i].value.op = "UNDEFINED"
        /\ errors[json[j].of].opts.op = "APPLY_TO"
        /\ errors[json[j].of].opts.id = "a"
        /\ errors[json[j].of].error.state = <<ArrayValue>>
        /\ errors[json[j].of].error.cause # <<>>
        /\ errors[json[j].of].error.cause[1].cause # <<>>
        /\ json[j].value.cause = <<[name |-> "HyperProcError", message |-> "inner"]>>

(***************************************************************************)
(* C23.  When an engine whose queue has an augment record was run on an    *)
(* object, every record of the queue completing, and is run again on the   *)
(* same object, the second run raises the error of augment for a property  *)
(* that already exists.                                                    *)
(***************************************************************************)
\* every record of the queue completed in the run r, an augment among them
AllCompleted(r) ==
    /\ runs[r].stack[1].pc = "resolved"
    /\ \A k \in DOMAIN Ev(r) : Ev(r)[k].ev \notin {"raise", "handler", "reject"}
    /\ \E k \in DOMAIN Ev(r) :
            Is(r, k, "end") /\ Ev(r)[k].fid = 1 /\ RecordOf(r, k).op = AUGMENT

\* the run r raised the error of line 125
RaisedAugment(r) ==
    \E k \in DOMAIN Ev(r) :
        /\ Is(r, k, "raise")
        /\ IsHyperProcError(Ev(r)[k].err[1])
        /\ Ev(r)[k].err[1].msg = "augment property already exists"
        /\ Ev(r)[k].err[1].op = OpString(AUGMENT)
        /\ Ev(r)[k].err[1].id = RecordOf(r, k).id

C23_SecondRunRaises ==
    \A q, r \in DOMAIN runs :
        (/\ q = TwoRuns[1] /\ r = TwoRuns[2]
         /\ Settled(runs[q]) /\ Settled(runs[r])
         /\ runs[q].input = runs[r].input
         /\ AllCompleted(q)) => RaisedAugment(r)

(***************************************************************************)
(* C22.  Every run call, the functions of the queue and the handlers all   *)
(* settling, eventually settles: its promise is resolved or rejected.      *)
(***************************************************************************)
C22_RunSettles ==
    \A r \in RunNames :
        (r \in DOMAIN runs) ~> (r \in DOMAIN runs /\ Settled(runs[r]))

====
